---- MODULE Spec2Model ----
(***************************************************************************)
(* A model of the GTP header decoder (src/parser.rs, src/header.rs,        *)
(* src/info.rs): the bounds-checked byte cursor, the header decode with    *)
(* its flag-gated optional fields, the recursive extension-header walk and *)
(* the tag-dispatched information-element decoder.                         *)
(*                                                                         *)
(* Every decoding function of the source is an operator that takes the     *)
(* buffer and the cursor position (the two fields of Parser) and returns   *)
(* an outcome record holding the Result and the position the call leaves   *)
(* in the Parser.  An outcome is Ok, Err (a ParseError) or Panic (the      *)
(* call unwinds).  The actions apply the operators to one Parser.          *)
(*                                                                         *)
(* usize values: a usize v < 2^(w-1) is written v; a usize v >= 2^(w-1)    *)
(* is written v - 2^w (two's complement), so -1 is usize::MAX.  With this  *)
(* writing the wrapped sum and difference are the integer sum and          *)
(* difference, whatever the target's width w.  Slice lengths and positions *)
(* are at most isize::MAX and so are always written as themselves.         *)
(***************************************************************************)
EXTENDS Integers, Sequences, FiniteSets, TLC

VARIABLES
  bytes,            \* Parser.bytes: the borrowed buffer
  pos,              \* Parser.pos
  overflow_checks,  \* build profile: TRUE = overflow checks on (debug), FALSE = wrapping (release)
  op,               \* the last operation called on the Parser ("new" after Parser::new)
  arg,              \* its arguments but the Parser (<<>> when it takes no other)
  pos0,             \* Parser.pos when the last operation was called
  out               \* what the last operation returned (or that it panicked)

vars == <<bytes, pos, overflow_checks, op, arg, pos0, out>>

----------------------------------------------------------------------------
(* Bounds of the model. *)

\* Parser::parse is called with len in 0..MaxLen ...
MaxLen == 3
\* ... and with the MaxWrap largest usize values, usize::MAX - MaxWrap + 1 .. usize::MAX
MaxWrap == 2
\* longest buffer of the cursor specification
MaxBuf == 4
\* longest tail (optional fields and extension chain) of a header buffer
MaxTail == 7
\* most octets after the tag of an information-element buffer
MaxIe == 5
\* most octets of a payload buffer
MaxPayload == 4
\* largest length byte ExtType::parse is called with
MaxExtLen == 1

----------------------------------------------------------------------------
(* Values shared by all decoders. *)

NoArg == 0 - 1

PrematureEnd == [kind |-> "PrematureEnd", arg |-> NoArg]
UnsupportedVersion == [kind |-> "UnsupportedVersion", arg |-> NoArg]
UnsupportedInformationElement(t) == [kind |-> "UnsupportedInformationElement", arg |-> t]
UnsupportedExtensionHeader(t) == [kind |-> "UnsupportedExtensionHeader", arg |-> t]
BadIpAddress == [kind |-> "BadIpAddress", arg |-> NoArg]
BadUdpPort(v) == [kind |-> "BadUdpPort", arg |-> v]

NoErr == [kind |-> "none", arg |-> NoArg]

\* Result::Ok(v) with the Parser left at position p
Ok(v, p) == [st |-> "Ok", val |-> v, err |-> NoErr, pos |-> p]
\* Result::Err(e) with the Parser left at position p
Err(e, p) == [st |-> "Err", val |-> <<>>, err |-> e, pos |-> p]
\* the call unwinds with the Parser left at position p
Panic(p) == [st |-> "Panic", val |-> <<>>, err |-> NoErr, pos |-> p]

\* Option
None == <<>>
Some(x) == <<x>>

\* bit i of an octet
Bit(b, i) == (b \div (2 ^ i)) % 2

\* a & b on octets
BitAnd(a, b) ==
  Bit(a, 0) * Bit(b, 0) + 2 * Bit(a, 1) * Bit(b, 1) + 4 * Bit(a, 2) * Bit(b, 2)
  + 8 * Bit(a, 3) * Bit(b, 3) + 16 * Bit(a, 4) * Bit(b, 4) + 32 * Bit(a, 5) * Bit(b, 5)
  + 64 * Bit(a, 6) * Bit(b, 6) + 128 * Bit(a, 7) * Bit(b, 7)

\* usize addition a + b carries out of the word (a is a position, 0 <= a)
UsizeAddOverflows(a, b) == b < 0 /\ a + b >= 0

\* usize comparison a > b
UsizeGt(a, b) ==
  IF (a < 0) = (b < 0) THEN a > b ELSE a < 0

----------------------------------------------------------------------------
(* src/parser.rs *)

\* Parser::new
Parser_new(bs) == [bytes |-> bs, pos |-> 0]

\* Parser::parse(len).  The sum self.pos + len panics under overflow checks
\* and wraps without; after a wrapped sum the position is stored and the
\* slice bytes[pos-len .. pos] has its start after its end, which panics.
Parser_parse(bs, p, len, checks) ==
  IF UsizeAddOverflows(p, len) /\ checks THEN Panic(p)
  ELSE IF UsizeGt(p + len, Len(bs)) THEN Err(PrematureEnd, p)
  ELSE LET newpos == p + len
           start  == newpos - len
       IN IF UsizeGt(start, newpos) \/ UsizeGt(newpos, Len(bs))
          THEN Panic(newpos)
          ELSE Ok(SubSeq(bs, start + 1, newpos), newpos)

\* BigEndian::read_u16
BigEndian_read_u16(r) == 256 * r[1] + r[2]

\* LittleEndian::read_u16
LittleEndian_read_u16(r) == r[1] + 256 * r[2]

\* LittleEndian::read_u32
LittleEndian_read_u32(r) == r[1] + 256 * r[2] + 65536 * r[3] + 16777216 * r[4]

\* The `?` operator: continue with the value of an Ok, return anything else.
Try(r, K(_)) == IF r.st = "Ok" THEN K(r) ELSE r

\* Result::map on an outcome
Map(r, F(_)) == IF r.st = "Ok" THEN Ok(F(r.val), r.pos) ELSE r

First(r) == r[1]

\* Parser::parse_u8
Parser_parse_u8(bs, p, checks) == Map(Parser_parse(bs, p, 1, checks), First)

\* Parser::parse_u16
Parser_parse_u16(bs, p, checks) == Map(Parser_parse(bs, p, 2, checks), LittleEndian_read_u16)

\* Parser::parse_u32
Parser_parse_u32(bs, p, checks) == Map(Parser_parse(bs, p, 4, checks), LittleEndian_read_u32)

----------------------------------------------------------------------------
(* src/header.rs *)

\* Version::parse: b >> 5 (always Ok)
Version_parse(b) == b \div 32

\* the mask Protocol::parse tests
ProtocolMask == 32

\* Protocol::parse (always Ok)
Protocol_parse(b) == IF BitAnd(b, ProtocolMask) = 0 THEN "GtpPrime" ELSE "Gtp"

\* Flag::has_npdu_number
Flag_has_npdu_number(b) == BitAnd(b, 1) # 0

\* Flag::has_sequence_number testing the mask of the extension flag
Flag_has_sequence_number_mask4(b) == BitAnd(b, 4) # 0

\* Flag::has_sequence_number
Flag_has_sequence_number(b) == BitAnd(b, 2) # 0

\* Flag::has_extension_header
Flag_has_extension_header(b) == BitAnd(b, 4) # 0

\* Flags::parse (always Ok): the HashSet<Flag>
Flags_parse(b) ==
  (IF Flag_has_npdu_number(b) THEN {"NPduNumber"} ELSE {})
  \cup (IF Flag_has_sequence_number(b) THEN {"SequenceNumber"} ELSE {})
  \cup (IF Flag_has_extension_header(b) THEN {"ExtensionHeader"} ELSE {})

\* Length::parse
Length_parse(bs, p, checks) == Parser_parse_u16(bs, p, checks)

\* TunnelEid::parse
TunnelEid_parse(bs, p, checks) == Parser_parse_u32(bs, p, checks)

\* a sequence number of four bytes
SequenceNumber_parse_u32(bs, p, checks) == Parser_parse_u32(bs, p, checks)

\* SequenceNumber::parse
SequenceNumber_parse(bs, p, checks) == Parser_parse_u16(bs, p, checks)

\* NPduNumber::parse
NPduNumber_parse(bs, p, checks) == Parser_parse_u8(bs, p, checks)

\* Flags::parse_seq_num taking a failed read for an absent field
\* (SequenceNumber::parse(p).ok() for SequenceNumber::parse(p).map(Some))
Flags_parse_seq_num_lenient(flags, bs, p, checks) ==
  IF "SequenceNumber" \in flags /\ SequenceNumber_parse(bs, p, checks).st # "Err"
  THEN Map(SequenceNumber_parse(bs, p, checks), Some)
  ELSE Ok(None, p)

\* Flags::parse_seq_num
Flags_parse_seq_num(flags, bs, p, checks) ==
  IF "SequenceNumber" \in flags
  THEN Map(SequenceNumber_parse(bs, p, checks), Some)
  ELSE Ok(None, p)

\* Flags::parse_npdu taking a failed read for an absent field
\* (NPduNumber::parse(p).ok() for NPduNumber::parse(p).map(Some))
Flags_parse_npdu_lenient(flags, bs, p, checks) ==
  IF "NPduNumber" \in flags /\ NPduNumber_parse(bs, p, checks).st # "Err"
  THEN Map(NPduNumber_parse(bs, p, checks), Some)
  ELSE Ok(None, p)

\* Flags::parse_npdu
Flags_parse_npdu(flags, bs, p, checks) ==
  IF "NPduNumber" \in flags
  THEN Map(NPduNumber_parse(bs, p, checks), Some)
  ELSE Ok(None, p)

\* the match of ExtHeaderType::parse with a default arm that ends the chain
ExtHeaderType_match_lenient(t, p) ==
  CASE t = 1   -> Ok("MbmsSupport", p)
    [] t = 2   -> Ok("MsInfoChangeReporting", p)
    [] t = 64  -> Ok("UdpPort", p)
    [] t = 192 -> Ok("PdcpPdu", p)
    [] t = 193 -> Ok("SuspendRequest", p)
    [] t = 194 -> Ok("SuspendResponse", p)
    [] OTHER   -> Ok("EndReached", p)

\* the match of ExtHeaderType::parse on the octet t, the Parser being at p
ExtHeaderType_match(t, p) ==
  CASE t = 0   -> Ok("EndReached", p)
    [] t = 1   -> Ok("MbmsSupport", p)
    [] t = 2   -> Ok("MsInfoChangeReporting", p)
    [] t = 64  -> Ok("UdpPort", p)
    [] t = 192 -> Ok("PdcpPdu", p)
    [] t = 193 -> Ok("SuspendRequest", p)
    [] t = 194 -> Ok("SuspendResponse", p)
    [] OTHER   -> Err(UnsupportedExtensionHeader(t), p)

\* ExtHeaderType::parse
ExtHeaderType_parse(bs, p, checks) ==
  Try(Parser_parse_u8(bs, p, checks), LAMBDA t : ExtHeaderType_match(t.val, t.pos))

\* ExtensionHeader::new
ExtensionHeader_new(kind, content) == [kind |-> kind, content |-> content]

\* The history of an extension walk, kept beside the Vec res: the type-tag
\* octets read so far (tags) and the position at which each invocation of
\* ExtensionHeader::parse started (entries).
NoHist == [tags |-> <<>>, entries |-> <<>>]

ReadTag(h, t) == [h EXCEPT !.tags = Append(@, t)]

Entered(h, p) == [h EXCEPT !.entries = Append(@, p)]

\* The outcome of the extension walk: the Result r (of unit, or of the Vec
\* for Flags::parse_ext_hdrs), the Vec res as the call leaves it, and the history.
Walk(r, res, h) ==
  [st |-> r.st, val |-> r.val, err |-> r.err, pos |-> r.pos,
   res |-> res, tags |-> h.tags, entries |-> h.entries]

\* `?` inside the walk
TryWalk(r, res, h, K(_)) == IF r.st = "Ok" THEN K(r) ELSE Walk(r, res, h)

\* the history after ExtHeaderType::parse at q returned r: the octet it read,
\* if it read one
TagHist(bs, q, r, h) == IF r.pos = q + 1 THEN ReadTag(h, bs[q + 1]) ELSE h

\* l * 4 on u8 overflows
U8Mul4Overflows(l) == l * 4 > 255

\* the u8 product l * 4, wrapped
U8Mul4(l) == (l * 4) % 256

RECURSIVE ExtensionHeader_parse(_, _, _, _, _, _)
\* ExtensionHeader::parse, with the history h of the walk so far.  l * 4 is
\* a u8 product: it panics under overflow checks and wraps modulo 256 without.
ExtensionHeader_parse(bs, p, kind, res, checks, h) ==
  TryWalk(Parser_parse_u8(bs, p, checks), res, Entered(h, p), LAMBDA l :
    IF U8Mul4Overflows(l.val) /\ checks
    THEN Walk(Panic(l.pos), res, Entered(h, p))
    ELSE
    TryWalk(Parser_parse(bs, l.pos, U8Mul4(l.val), checks), res, Entered(h, p), LAMBDA content :
      TryWalk(ExtHeaderType_parse(bs, content.pos, checks), res,
              TagHist(bs, content.pos, ExtHeaderType_parse(bs, content.pos, checks), Entered(h, p)),
              LAMBDA next :
        IF next.val # "EndReached"
        THEN ExtensionHeader_parse(bs, next.pos, next.val,
                                   Append(res, ExtensionHeader_new(kind, content.val)), checks,
                                   ReadTag(Entered(h, p), bs[content.pos + 1]))
        ELSE Walk(Ok(<<>>, next.pos),
                  Append(res, ExtensionHeader_new(kind, content.val)),
                  ReadTag(Entered(h, p), bs[content.pos + 1])))))

\* the Vec Flags::parse_ext_hdrs returns after a walk w
VecOf(w) == IF w.st = "Ok" THEN [w EXCEPT !.val = w.res] ELSE w

\* Flags::parse_ext_hdrs
Flags_parse_ext_hdrs(flags, bs, p, checks) ==
  IF "ExtensionHeader" \in flags
  THEN TryWalk(ExtHeaderType_parse(bs, p, checks), <<>>,
               TagHist(bs, p, ExtHeaderType_parse(bs, p, checks), NoHist), LAMBDA kind :
         VecOf(ExtensionHeader_parse(bs, kind.pos, kind.val, <<>>, checks,
                                     ReadTag(NoHist, bs[p + 1]))))
  ELSE Walk(Ok(<<>>, p), <<>>, NoHist)

\* the outcome of Gtp::parse: the Result, the Parser's position, and the
\* outcome of the extension walk when the decode got that far (walk)
GtpOut(r, walk) ==
  [st |-> r.st, val |-> r.val, err |-> r.err, pos |-> r.pos, walk |-> walk]

NoWalk == [st |-> "None"]

\* `?` inside Gtp::parse, before the walk
TryGtp(r, K(_)) == IF r.st = "Ok" THEN K(r) ELSE GtpOut(r, NoWalk)

\* the end of Gtp::parse: the last `?` and the struct literal
Gtp_new(top, len, teid, seq_num, npdu_num, ext_hdrs) ==
  IF ext_hdrs.st # "Ok"
  THEN GtpOut([st |-> ext_hdrs.st, val |-> <<>>, err |-> ext_hdrs.err, pos |-> ext_hdrs.pos],
              ext_hdrs)
  ELSE GtpOut(Ok([version  |-> Version_parse(top.val),
                  protocol |-> Protocol_parse(top.val),
                  flags    |-> Flags_parse(top.val),
                  length   |-> len.val,
                  teid     |-> teid.val,
                  seq_num  |-> seq_num.val,
                  npdu_num |-> npdu_num.val,
                  ext_hdrs |-> ext_hdrs.val], ext_hdrs.pos),
              ext_hdrs)

\* Gtp::parse
Gtp_parse(bs, p, checks) ==
  TryGtp(Parser_parse_u8(bs, p, checks), LAMBDA top :
    TryGtp(Length_parse(bs, top.pos, checks), LAMBDA len :
      TryGtp(TunnelEid_parse(bs, len.pos, checks), LAMBDA teid :
        TryGtp(Flags_parse_seq_num(Flags_parse(top.val), bs, teid.pos, checks), LAMBDA seq_num :
          TryGtp(Flags_parse_npdu(Flags_parse(top.val), bs, seq_num.pos, checks), LAMBDA npdu_num :
            Gtp_new(top, len, teid, seq_num, npdu_num,
                    Flags_parse_ext_hdrs(Flags_parse(top.val), bs, npdu_num.pos, checks)))))))

----------------------------------------------------------------------------
(* src/info.rs *)

\* the variants of InfoElement
Recovery(v) == [variant |-> "Recovery", val |-> v]
TeiData(v) == [variant |-> "TeiData", val |-> v]
GtpPeerAddr(v) == [variant |-> "GtpPeerAddr", val |-> v]

\* the variants of InetAddr
V4(v) == [variant |-> "V4", val |-> v]
V6(v) == [variant |-> "V6", val |-> v]

\* a restart counter of two bytes
RestartCounter_parse_u16(bs, p, checks) == Parser_parse_u16(bs, p, checks)

\* RestartCounter::parse
RestartCounter_parse(bs, p, checks) == Parser_parse_u8(bs, p, checks)

\* TeiData::parse
TeiData_parse(bs, p, checks) == Parser_parse_u32(bs, p, checks)

V4OfSlice(r) == V4(LittleEndian_read_u32(r))

\* InetAddr::parse_v4
InetAddr_parse_v4(bs, p, checks) == Map(Parser_parse(bs, p, 4, checks), V4OfSlice)

\* InetAddr::parse_v6
InetAddr_parse_v6(bs, p, checks) == Map(Parser_parse(bs, p, 16, checks), V6)

\* InetAddr::parse
InetAddr_parse(len, bs, p, checks) ==
  CASE len = 4  -> InetAddr_parse_v4(bs, p, checks)
    [] len = 16 -> InetAddr_parse_v6(bs, p, checks)
    [] OTHER    -> Err(BadIpAddress, p)

\* InfoElement::parse_fixed
InfoElement_parse_fixed(ie_type, bs, p, checks) ==
  CASE ie_type = 14 -> Map(RestartCounter_parse(bs, p, checks), Recovery)
    [] ie_type = 16 -> Map(TeiData_parse(bs, p, checks), TeiData)
    [] OTHER        -> Err(UnsupportedInformationElement(ie_type), p)

\* the match of InfoElement::parse_variable, the length byte read
InfoElement_match_variable(ie_type, len, bs, p, checks) ==
  CASE ie_type = 133 -> Map(InetAddr_parse(len, bs, p, checks), GtpPeerAddr)
    [] OTHER         -> Err(UnsupportedInformationElement(ie_type), p)

\* InfoElement::parse_variable
InfoElement_parse_variable(ie_type, bs, p, checks) ==
  Try(Parser_parse_u8(bs, p, checks), LAMBDA len :
    InfoElement_match_variable(ie_type, len.val, bs, len.pos, checks))

\* the mask InfoElement::parse tests to tell the fixed from the variable
\* elements: the literal 0b1000000 (seven digits)
VariableMask == 64

\* InfoElement::parse
InfoElement_parse(bs, p, checks) ==
  Try(Parser_parse_u8(bs, p, checks), LAMBDA ie_type :
    IF BitAnd(ie_type.val, VariableMask) = 0
    THEN InfoElement_parse_fixed(ie_type.val, bs, ie_type.pos, checks)
    ELSE InfoElement_parse_variable(BitAnd(ie_type.val, 127), bs, ie_type.pos, checks))

\* the variants of ExtType
UdpPort(v) == [variant |-> "UdpPort", val |-> v]
PdcpPduNumber(v) == [variant |-> "PdcpPduNumber", val |-> v]

\* struct ExtHeader
ExtHeader(compr, etype) == [comprehension |-> compr, header |-> etype]

\* Comprehension::parse (always Ok)
Comprehension_parse(b) ==
  CASE BitAnd(b, 128) = 0 /\ BitAnd(b, 64) = 0 -> "Optional"
    [] BitAnd(b, 128) = 0 /\ BitAnd(b, 64) # 0 -> "Discard"
    [] BitAnd(b, 128) # 0 /\ BitAnd(b, 64) = 0 -> "Receiver"
    [] OTHER                                   -> "Unconditional"

\* a ^ b on octets (^ is exclusive or)
BitXor(a, b) ==
  ((Bit(a, 0) + Bit(b, 0)) % 2) + 2 * ((Bit(a, 1) + Bit(b, 1)) % 2)
  + 4 * ((Bit(a, 2) + Bit(b, 2)) % 2) + 8 * ((Bit(a, 3) + Bit(b, 3)) % 2)
  + 16 * ((Bit(a, 4) + Bit(b, 4)) % 2) + 32 * ((Bit(a, 5) + Bit(b, 5)) % 2)
  + 64 * ((Bit(a, 6) + Bit(b, 6)) % 2) + 128 * ((Bit(a, 7) + Bit(b, 7)) % 2)

\* the bound of ExtType::parse_udp_port: the expression 2^16
PortBound == BitXor(2, 16)

\* port as u16
AsU16(v) == v % 65536

\* the end of ExtType::parse_udp_port, the slice r of len * 4 bytes read:
\* LittleEndian::read_u32 reads the first 4 bytes of the slice and panics on
\* a slice shorter than 4
ExtType_udp_port_of(r) ==
  IF Len(r.val) < 4 THEN Panic(r.pos)
  ELSE IF LittleEndian_read_u32(r.val) > PortBound
       THEN Err(BadUdpPort(LittleEndian_read_u32(r.val)), r.pos)
       ELSE Ok(UdpPort(AsU16(LittleEndian_read_u32(r.val))), r.pos)

\* ExtType::parse_udp_port
ExtType_parse_udp_port(len, bs, p, checks) ==
  Try(Parser_parse(bs, p, len * 4, checks), ExtType_udp_port_of)

\* ExtType::parse; the arm of 0 is unimplemented!()
ExtType_parse(t, len, bs, p, checks) ==
  CASE t = 0   -> Panic(p)
    [] t = 64  -> ExtType_parse_udp_port(len, bs, p, checks)
    [] t = 192 -> Map(Parser_parse_u32(bs, p, checks), PdcpPduNumber)
    [] OTHER   -> Err(UnsupportedExtensionHeader(t), p)

\* ExtHeader::parse
ExtHeader_parse(t, bs, p, checks) ==
  Try(Parser_parse_u8(bs, p, checks), LAMBDA len :
    Try(ExtType_parse(t, len.val, bs, len.pos, checks), LAMBDA etype :
      Ok(ExtHeader(Comprehension_parse(t), etype.val), etype.pos)))

----------------------------------------------------------------------------
(* The cursor specification: any sequence of cursor operations on one      *)
(* Parser over a short buffer.                                             *)

\* all sequences over S of length at most n
SeqsUpTo(S, n) == UNION {[1 .. k -> S] : k \in 0 .. n}

CursorOctets == {0, 1, 14}

CursorBuffers == SeqsUpTo(CursorOctets, MaxBuf)

\* the lengths Parser::parse is called with
Lens == (0 .. MaxLen) \cup {0 - d : d \in 1 .. MaxWrap}

Fresh == [st |-> "New", val |-> <<>>, err |-> NoErr, pos |-> 0]

InitOn(buffers) ==
  /\ bytes \in buffers
  /\ pos = Parser_new(bytes).pos
  /\ overflow_checks \in BOOLEAN
  /\ op = "new"
  /\ arg = <<>>
  /\ pos0 = 0
  /\ out = Fresh

\* a call on the Parser that returns (or unwinds with) r
Called(name, a, r) ==
  /\ out.st # "Panic"
  /\ op' = name
  /\ arg' = a
  /\ pos0' = pos
  /\ out' = r
  /\ pos' = r.pos
  /\ UNCHANGED <<bytes, overflow_checks>>

Call_parse ==
  \E len \in Lens : Called("parse", <<len>>, Parser_parse(bytes, pos, len, overflow_checks))

Call_parse_u8 == Called("parse_u8", <<>>, Parser_parse_u8(bytes, pos, overflow_checks))

Call_parse_u16 == Called("parse_u16", <<>>, Parser_parse_u16(bytes, pos, overflow_checks))

Call_parse_u32 == Called("parse_u32", <<>>, Parser_parse_u32(bytes, pos, overflow_checks))

InitCursor == InitOn(CursorBuffers)

NextCursor == Call_parse \/ Call_parse_u8 \/ Call_parse_u16 \/ Call_parse_u32

SpecCursor == InitCursor /\ [][NextCursor]_vars

----------------------------------------------------------------------------
(* The header specification: Gtp::parse on one Parser over a buffer made   *)
(* of a first octet, the six octets of length and TEID, and a tail holding *)
(* the optional fields and the extension chain; or over a truncation of    *)
(* such a buffer.                                                          *)

\* the first octets: version 1 with each of the 8 flag combinations, and
\* version 0 with the other bit of the top nibble
FirstOctets == {48 + f : f \in 0 .. 7} \cup {16}

\* length 0 and TEID 1, as in the tests of header.rs
FixedFields == <<0, 0, 1, 0, 0, 0>>

\* 0: the EndReached tag, or a length of 0 words; 1: the MbmsSupport tag, or a
\* length of one word; 65: no extension type, or a length whose product by 4
\* does not fit a u8
TailOctets == {0, 1, 65}

HeaderBuffers ==
  {SubSeq(<<h>> \o FixedFields, 1, m) : h \in FirstOctets, m \in 0 .. 6}
  \cup {<<h>> \o FixedFields \o t : h \in FirstOctets, t \in SeqsUpTo(TailOctets, MaxTail)}

\* raw of tests::parse_basic_header, and the two header examples of the
\* specification
HeaderExamples ==
  { <<51, 0, 0, 1, 0, 0, 0, 14, 0, 5, 0>>,
    <<48, 0, 0, 0, 0, 0, 1>>,
    <<51, 0, 0, 0, 0, 0, 1, 0, 14, 5, 0>> }

Call_Gtp_parse == Called("Gtp::parse", <<>>, Gtp_parse(bytes, pos, overflow_checks))

Init == InitOn(HeaderBuffers \cup HeaderExamples)

Next == Call_Gtp_parse

Spec == Init /\ [][Next]_vars

----------------------------------------------------------------------------
(* The information-element specification: a caller decodes with one Parser *)
(* a header (Gtp::parse) and what follows it with the decoders of info.rs  *)
(* (InfoElement::parse, ExtHeader::parse, ExtType::parse), over a buffer   *)
(* made of a tag octet and a few more octets, a buffer of payload octets,  *)
(* or one of the headers of the tests and of the examples.                 *)

\* 14, 16: the fixed-length elements; 133, 141: the variable-length elements
\* of the comments of info.rs; 7, 64, 200: tags of no element, with neither,
\* one and both of the two top bits set
IeTags == {14, 16, 133, 141, 7, 64, 200}

\* 4, 16: the lengths of the two address families; 5: another length
IeOctets == {4, 5, 16}

\* an IPv6 peer address element
PeerV6 == <<133, 16>> \o [i \in 1 .. 16 |-> 4]

IeBuffers ==
  {<<>>, PeerV6} \cup {<<t>> \o s : t \in IeTags, s \in SeqsUpTo(IeOctets, MaxIe)}

\* the octets of a port or PDU number
PayloadOctets == {0, 4, 20}

PayloadBuffers == SeqsUpTo(PayloadOctets, MaxPayload)

\* raw of tests::parse_minimal_header and of tests::parse_basic_header, and
\* the two header examples of the specification
ExampleBuffers ==
  { <<48, 0, 0, 1, 0, 0, 0, 0>>,
    <<51, 0, 0, 1, 0, 0, 0, 14, 0, 5, 0>>,
    <<48, 0, 0, 0, 0, 0, 1>>,
    <<51, 0, 0, 0, 0, 0, 1, 0, 14, 5, 0>> }

\* the type octets ExtHeader::parse and ExtType::parse are called with: the
\* three of the match of ExtType::parse and one of its default arm
ExtTypeOctets == {0, 64, 192, 128}

\* the length bytes ExtType::parse is called with
ExtLens == 0 .. MaxExtLen

Call_InfoElement_parse ==
  Called("InfoElement::parse", <<>>, InfoElement_parse(bytes, pos, overflow_checks))

Call_ExtHeader_parse ==
  \E t \in ExtTypeOctets :
    Called("ExtHeader::parse", <<t>>, ExtHeader_parse(t, bytes, pos, overflow_checks))

Call_ExtType_parse ==
  \E t \in ExtTypeOctets, len \in ExtLens :
    Called("ExtType::parse", <<t, len>>, ExtType_parse(t, len, bytes, pos, overflow_checks))

InitInfo == InitOn(IeBuffers \cup PayloadBuffers \cup ExampleBuffers)

NextInfo ==
  Call_InfoElement_parse \/ Call_ExtHeader_parse \/ Call_ExtType_parse \/ Call_Gtp_parse

SpecInfo == InitInfo /\ [][NextInfo]_vars

----------------------------------------------------------------------------
(* C1, C2: the cursor *)

\* the bytes remaining at pos0 are at least n (n as a mathematical integer:
\* a wrapped usize is larger than any buffer)
Fits(n) == n >= 0 /\ pos0 + n <= Len(bytes)

\* C1: Parser::parse(n) at position pos over a buffer of length L returns
\* bytes[pos .. pos+n) and moves to pos + n when pos + n <= L, and returns
\* PrematureEnd leaving the position at pos when pos + n > L, for every n >= 0.
C1_ParseContract ==
  op = "parse" =>
    IF Fits(arg[1])
    THEN /\ out.st = "Ok"
         /\ out.val = [i \in 1 .. arg[1] |-> bytes[pos0 + i]]
         /\ pos = pos0 + arg[1]
    ELSE /\ out.st = "Err"
         /\ out.err = PrematureEnd
         /\ pos = pos0

\* C2: after any sequence of cursor operations the position is within
\* 0 .. buffer length and never decreases from one state to the next.
C2_PositionMonotone ==
  [][(pos \in 0 .. Len(bytes)) /\ (pos' \in 0 .. Len(bytes)) /\ (pos' >= pos)]_vars

----------------------------------------------------------------------------
(* C3 .. C8: the header and the extension chain *)

GtpCalled == op = "Gtp::parse"

\* the first octet Gtp::parse read
Top == bytes[pos0 + 1]

\* C3: when Gtp::parse succeeds, seq_num is Some exactly when bit 1 of the
\* first octet is set, npdu_num is Some exactly when bit 0 is set, and
\* ext_hdrs is non-empty exactly when bit 2 is set.
C3_FlagFidelity ==
  (GtpCalled /\ out.st = "Ok") =>
    /\ (out.val.seq_num # None) <=> (Bit(Top, 1) = 1)
    /\ (out.val.npdu_num # None) <=> (Bit(Top, 0) = 1)
    /\ (out.val.ext_hdrs # <<>>) <=> (Bit(Top, 2) = 1)

\* a decode of a header with all three flags set succeeded
C3_Witness ==
  /\ GtpCalled /\ out.st = "Ok"
  /\ Bit(Top, 0) = 1 /\ Bit(Top, 1) = 1 /\ Bit(Top, 2) = 1
  /\ out.val.seq_num # None /\ out.val.npdu_num # None /\ out.val.ext_hdrs # <<>>

\* C4: when Gtp::parse succeeds having consumed k bytes, Gtp::parse on every
\* truncation of the buffer that keeps fewer than those k bytes returns
\* PrematureEnd, with the position inside the truncated buffer.
C4_Truncation ==
  (GtpCalled /\ out.st = "Ok") =>
    \A m \in pos0 .. pos - 1 :
      LET r == Gtp_parse(SubSeq(bytes, 1, m), pos0, overflow_checks)
      IN r.st = "Err" /\ r.err = PrematureEnd /\ r.pos \in pos0 .. m

\* a decode with N-PDU number and a chain of two records succeeded
C4_Witness ==
  /\ GtpCalled /\ out.st = "Ok" /\ pos0 = 0
  /\ out.val.npdu_num # None
  /\ Len(out.val.ext_hdrs) = 2
  /\ pos >= 13

\* the first octet with the bit Protocol::parse tests flipped
FlipProtocolBit(b) ==
  IF BitAnd(b, ProtocolMask) = 0 THEN b + ProtocolMask ELSE b - ProtocolMask

\* C5: the version is the value of the top three bits of the first octet and
\* the bit that selects the protocol is none of them: the same buffer with
\* the protocol bit flipped decodes to the other protocol and the same version.
C5_VersionProtocolDisjoint ==
  (GtpCalled /\ out.st = "Ok") =>
    LET flipped == Gtp_parse([bytes EXCEPT ![pos0 + 1] = FlipProtocolBit(Top)],
                             pos0, overflow_checks)
    IN /\ out.val.version = 4 * Bit(Top, 7) + 2 * Bit(Top, 6) + Bit(Top, 5)
       /\ flipped.st = "Ok"
       /\ flipped.val.protocol # out.val.protocol
       /\ flipped.val.version = out.val.version

\* the kind of a supported type tag
KindOf(t) == ExtHeaderType_match(t, 0).val

\* the tags of a sequence of tags before its first EndReached (0) tag
BeforeSentinel(tags) ==
  LET ends == {i \in 1 .. Len(tags) : tags[i] = 0}
      n    == IF ends = {} THEN Len(tags)
              ELSE (CHOOSE i \in ends : \A j \in ends : i <= j) - 1
  IN SubSeq(tags, 1, n)

\* C6: when the extension flag is set and Gtp::parse succeeds, the kinds of
\* the records of ext_hdrs are, in order, the type tags read before the first
\* EndReached tag, and no record has kind EndReached.
C6_ChainKinds ==
  (GtpCalled /\ out.st = "Ok" /\ Bit(Top, 2) = 1) =>
    LET expected == BeforeSentinel(out.walk.tags)
    IN /\ Len(out.val.ext_hdrs) = Len(expected)
       /\ \A i \in 1 .. Len(expected) : out.val.ext_hdrs[i].kind = KindOf(expected[i])
       /\ \A i \in 1 .. Len(out.val.ext_hdrs) : out.val.ext_hdrs[i].kind # "EndReached"

\* the seven supported type tags
SupportedTags == {0, 1, 2, 64, 192, 193, 194}

\* the walk of ExtensionHeader::parse was entered
Walked == GtpCalled /\ out.walk.st # "None" /\ out.walk.entries # <<>>

\* C7: every step of the walk advances the cursor by at least 2 bytes, the
\* number of recursive calls and the number of records are at most half the
\* bytes remaining when the walk started, and a walk that has consumed the
\* whole buffer having read no EndReached tag (and no tag of no extension
\* type) ends with PrematureEnd.
C7_WalkBounded ==
  Walked =>
    LET w == out.walk
        remaining == Len(bytes) - w.entries[1]
    IN /\ \A i \in 1 .. Len(w.entries) - 1 : w.entries[i + 1] >= w.entries[i] + 2
       /\ 2 * (Len(w.entries) - 1) <= remaining
       /\ 2 * Len(w.res) <= remaining
       /\ (/\ w.st # "Ok"
           /\ w.pos = Len(bytes)
           /\ \A i \in 1 .. Len(w.tags) : w.tags[i] \in SupportedTags \ {0})
            => (w.st = "Err" /\ w.err = PrematureEnd)

\* C8: whenever a type-tag octet t that is none of the seven supported values
\* is read during Gtp::parse, the decode returns UnsupportedExtensionHeader(t)
\* and reads nothing after it, however many records were walked before.
C8_UnsupportedTag ==
  (GtpCalled /\ out.walk.st # "None") =>
    \A i \in 1 .. Len(out.walk.tags) :
      out.walk.tags[i] \notin SupportedTags =>
        /\ out.st = "Err"
        /\ out.err = UnsupportedExtensionHeader(out.walk.tags[i])
        /\ i = Len(out.walk.tags)
        /\ pos = out.walk.pos

\* a tag of no extension type was read as the next tag of the second
\* invocation, after one record was pushed
C8_Witness ==
  /\ GtpCalled /\ out.walk.st # "None"
  /\ Len(out.walk.tags) = 3
  /\ out.walk.tags[3] \notin SupportedTags
  /\ Len(out.walk.res) = 1
  /\ Len(out.walk.entries) = 2

----------------------------------------------------------------------------
(* C9, C10: the information elements *)

IeCalled == op = "InfoElement::parse"

\* the buffer holds n octets from the position of the call on
Has(n) == Len(bytes) >= pos0 + n

\* the n octets that follow the first k octets read by the call
Following(k, n) == [i \in 1 .. n |-> bytes[pos0 + k + i]]

\* C9: InfoElement::parse on tag 133 and a length byte len returns an IPv4
\* peer address built from the next 4 bytes when len = 4, an IPv6 peer address
\* holding the next 16 bytes when len = 16, and BadIpAddress for any other len.
C9_PeerAddress ==
  (IeCalled /\ Has(2) /\ bytes[pos0 + 1] = 133) =>
    LET len == bytes[pos0 + 2]
    IN /\ (len = 4 /\ Has(6)) =>
            (out.st = "Ok" /\ out.val = GtpPeerAddr(V4(LittleEndian_read_u32(Following(2, 4)))))
       /\ (len = 16 /\ Has(18)) =>
            (out.st = "Ok" /\ out.val = GtpPeerAddr(V6(Following(2, 16))))
       /\ (len \notin {4, 16}) => (out.st = "Err" /\ out.err = BadIpAddress)

\* the tags of the fixed-length and of the variable-length table
TableTags == {14, 16, 133, 141}

\* C10: InfoElement::parse on a buffer starting with a tag t outside both
\* tables returns UnsupportedInformationElement(t), whatever follows the tag.
C10_UnsupportedElement ==
  (IeCalled /\ Has(1) /\ bytes[pos0 + 1] \notin TableTags) =>
    (out.st = "Err" /\ out.err = UnsupportedInformationElement(bytes[pos0 + 1]))

----------------------------------------------------------------------------
(* C11: the fixed-length elements *)

\* C11: InfoElement::parse on tag 14 returns Recovery holding the next byte
\* and consumes exactly 2 bytes; on tag 16 it returns TeiData decoded from the
\* next 4 bytes and consumes exactly 5 bytes; no length byte is read, and the
\* result is PrematureEnd when the value bytes are missing.
C11_FixedElements ==
  (IeCalled /\ Has(1)) =>
    /\ bytes[pos0 + 1] = 14 =>
         IF Has(2)
         THEN /\ out.st = "Ok"
              /\ out.val = Recovery(bytes[pos0 + 2])
              /\ pos = pos0 + 2
         ELSE out.st = "Err" /\ out.err = PrematureEnd
    /\ bytes[pos0 + 1] = 16 =>
         IF Has(5)
         THEN /\ out.st = "Ok"
              /\ out.val = TeiData(bytes[pos0 + 2] + 256 * bytes[pos0 + 3]
                                   + 65536 * bytes[pos0 + 4] + 16777216 * bytes[pos0 + 5])
              /\ pos = pos0 + 5
         ELSE out.st = "Err" /\ out.err = PrematureEnd

\* a Recovery element was decoded from a buffer that goes on after it, the
\* byte after the value differing from the value
C11_Witness ==
  /\ IeCalled /\ Has(3) /\ bytes[pos0 + 1] = 14
  /\ bytes[pos0 + 3] # bytes[pos0 + 2]
  /\ out.st = "Ok" /\ out.val.variant = "Recovery" /\ pos = pos0 + 2

----------------------------------------------------------------------------
(* C12: totality *)

\* the decoding operations of the information-element specification
DecodingOps == {"InfoElement::parse", "ExtHeader::parse", "ExtType::parse", "Gtp::parse"}

\* C12: every public decoding operation, for every buffer, tag octet and
\* length byte, ends in Ok or in one ParseError: none ends in an uncaught
\* failure (an unimplemented placeholder, an out-of-range slice access, an
\* arithmetic overflow abort).
C12_NoUncaughtFailure ==
  op \in DecodingOps => out.st \in {"Ok", "Err"}

----------------------------------------------------------------------------
(* C13: Gtp::parse is fail-fast *)

\* the three flag bits of the first octet, as 0 or 1
SeqBit == Bit(Top, 1)
NpduBit == Bit(Top, 0)
ExtBit == Bit(Top, 2)

\* a failing step: its error, the position just before its read (at), and
\* the number of octets that read consumed (read)
Failing(e, at, read) == [err |-> e, at |-> at, read |-> read]

\* the failing read of a type tag at q: the buffer ends at q, or the octet
\* there is of no extension type
FailingTag(q) ==
  IF Len(bytes) < q + 1 THEN Failing(PrematureEnd, q, 0)
  ELSE Failing(UnsupportedExtensionHeader(bytes[q + 1]), q, 1)

\* the earliest failing step of the invocation of ExtensionHeader::parse that
\* started at e: its length byte, its content, or its next tag
FailingInWalk(e) ==
  IF Len(bytes) < e + 1 THEN Failing(PrematureEnd, e, 0)
  ELSE IF Len(bytes) < e + 1 + U8Mul4(bytes[e + 1]) THEN Failing(PrematureEnd, e + 1, 0)
  ELSE FailingTag(e + 1 + U8Mul4(bytes[e + 1]))

\* the earliest failing step of a failed Gtp::parse, in the order first octet,
\* payload length, TEID, sequence number, N-PDU number, extension chain
FailingStep ==
  IF ~Has(1) THEN Failing(PrematureEnd, pos0, 0)
  ELSE IF ~Has(3) THEN Failing(PrematureEnd, pos0 + 1, 0)
  ELSE IF ~Has(7) THEN Failing(PrematureEnd, pos0 + 3, 0)
  ELSE IF SeqBit = 1 /\ ~Has(9) THEN Failing(PrematureEnd, pos0 + 7, 0)
  ELSE IF NpduBit = 1 /\ ~Has(8 + 2 * SeqBit)
       THEN Failing(PrematureEnd, pos0 + 7 + 2 * SeqBit, 0)
  ELSE IF out.walk.entries = <<>> THEN FailingTag(pos0 + 7 + 2 * SeqBit + NpduBit)
  ELSE FailingInWalk(out.walk.entries[Len(out.walk.entries)])

\* C13 as stated: a failed Gtp::parse returns the error of the earliest
\* failing step of the fixed order, produces no Gtp value, and leaves the
\* cursor at the position just before the failing read.
C13_FailFastBeforeRead ==
  (GtpCalled /\ out.st = "Err") =>
    /\ out.err = FailingStep.err
    /\ out.val = <<>>
    /\ pos = FailingStep.at

\* C13: a failed Gtp::parse returns the error of the earliest failing step of
\* the fixed order (first octet, payload length, TEID, sequence number, N-PDU
\* number, extension chain), produces no Gtp value, and reads nothing after
\* the failing step: after PrematureEnd the cursor is at the position just
\* before the failing read, after UnsupportedExtensionHeader it is just after
\* the type-tag octet of no extension type.
C13_FailFast ==
  (GtpCalled /\ out.st = "Err") =>
    /\ out.err = FailingStep.err
    /\ out.val = <<>>
    /\ pos = FailingStep.at + FailingStep.read
    /\ (~Has(1) \/ ExtBit = 0) => out.err = PrematureEnd

\* the walk pushed a record and then read a type tag of no extension type,
\* with octets left in the buffer after it
C13_Witness ==
  /\ GtpCalled /\ out.st = "Err"
  /\ out.err.kind = "UnsupportedExtensionHeader"
  /\ Len(out.walk.res) >= 1
  /\ pos < Len(bytes)

----------------------------------------------------------------------------
(* C14: one byte order *)

\* the value, least-significant byte first, of the 2 and of the 4 octets that
\* follow the first k octets read by the call
LsbFirst2(k) == bytes[pos0 + k + 1] + 256 * bytes[pos0 + k + 2]
LsbFirst4(k) ==
  bytes[pos0 + k + 1] + 256 * bytes[pos0 + k + 2]
  + 65536 * bytes[pos0 + k + 3] + 16777216 * bytes[pos0 + k + 4]

\* the payload of an ExtType decoded from the octets that follow the first k
\* octets read by the call is, or the port an error reports is, their value
\* least-significant byte first
PayloadLsbFirst(k) ==
  /\ (out.st = "Err" /\ out.err.kind = "BadUdpPort") => out.err.arg = LsbFirst4(k)
  /\ (out.st = "Ok" /\ op = "ExtType::parse") => out.val.val = LsbFirst4(k)
  /\ (out.st = "Ok" /\ op = "ExtHeader::parse") => out.val.header.val = LsbFirst4(k)

\* C14: every multi-byte integer field (payload length, TEID, sequence
\* number, TEI data, IPv4 peer address, PDCP PDU number, UDP port) is decoded
\* least-significant byte first, the order the tests assert: header bytes
\* 3..6 = 1,0,0,0 give TEID 1 and, with the sequence flag set, bytes
\* 7..8 = 14,0 give sequence number 14.
C14_OneByteOrder ==
  /\ (GtpCalled /\ out.st = "Ok") =>
       /\ out.val.length = LsbFirst2(1)
       /\ out.val.teid = LsbFirst4(3)
       /\ Bit(Top, 1) = 1 => out.val.seq_num = Some(LsbFirst2(7))
       /\ Following(3, 4) = <<1, 0, 0, 0>> => out.val.teid = 1
       /\ (Bit(Top, 1) = 1 /\ Following(7, 2) = <<14, 0>>) => out.val.seq_num = Some(14)
  /\ (IeCalled /\ out.st = "Ok" /\ out.val.variant = "TeiData") =>
       out.val.val = LsbFirst4(1)
  /\ Has(4) => InetAddr_parse_v4(bytes, pos0, overflow_checks).val = V4(LsbFirst4(0))
  /\ op = "ExtType::parse" => PayloadLsbFirst(0)
  /\ op = "ExtHeader::parse" => PayloadLsbFirst(1)

\* Gtp::parse decoded raw of tests::parse_basic_header: TEID 1 and sequence
\* number 14 from 1,0,0,0 and 14,0
C14_Witness ==
  /\ GtpCalled /\ out.st = "Ok" /\ pos0 = 0
  /\ bytes = <<51, 0, 0, 1, 0, 0, 0, 14, 0, 5, 0>>
  /\ out.val.teid = 1 /\ out.val.seq_num = Some(14)

----------------------------------------------------------------------------
(* C15: the two header examples *)

\* C15: Gtp::parse on [0b00110000, 0,0, 0,0,0,1] succeeds with version 1, no
\* flags, length 0, TEID 1, no sequence number, no N-PDU number and an empty
\* chain; on [0b00110011, 0,0, 0,0,0,1, 0,14, 5, 0] it succeeds with version
\* 1, sequence number 14, N-PDU number 5 and an empty chain.
C15_HeaderExamples ==
  (GtpCalled /\ pos0 = 0) =>
    /\ bytes = <<48, 0, 0, 0, 0, 0, 1>> =>
         /\ out.st = "Ok"
         /\ out.val.version = 1
         /\ out.val.flags = {}
         /\ out.val.length = 0
         /\ out.val.teid = 1
         /\ out.val.seq_num = None
         /\ out.val.npdu_num = None
         /\ out.val.ext_hdrs = <<>>
    /\ bytes = <<51, 0, 0, 0, 0, 0, 1, 0, 14, 5, 0>> =>
         /\ out.st = "Ok"
         /\ out.val.version = 1
         /\ out.val.seq_num = Some(14)
         /\ out.val.npdu_num = Some(5)
         /\ out.val.ext_hdrs = <<>>

----------------------------------------------------------------------------
(* C16: the extension-header element *)

\* C16: InfoElement::parse on tag 141, the buffer holding enough octets,
\* returns the ExtHeader variant: a comprehension value taken from the two
\* top bits of the type octet (00 Optional, 01 Discard, 10 Receiver,
\* 11 Unconditional) and a payload that is a UDP port or a PDCP PDU number.
C16_ExtHeaderElement ==
  (IeCalled /\ Has(1 + MaxIe) /\ bytes[pos0 + 1] = 141) =>
    /\ out.st = "Ok"
    /\ out.val.variant = "ExtHeader"
    /\ out.val.val.comprehension
         = (CASE Bit(141, 7) = 0 /\ Bit(141, 6) = 0 -> "Optional"
              [] Bit(141, 7) = 0 /\ Bit(141, 6) = 1 -> "Discard"
              [] Bit(141, 7) = 1 /\ Bit(141, 6) = 0 -> "Receiver"
              [] OTHER                              -> "Unconditional")
    /\ out.val.val.header.variant \in {"UdpPort", "PdcpPduNumber"}

----------------------------------------------------------------------------
(* C17: the content length of a record *)

\* C17: in each step of the extension walk, for every length byte l in
\* 0..255, the content of the record is exactly the next 4 * l octets and the
\* next type tag is read from the octet right after them: the product is not
\* reduced modulo 256 (and the step does not abort).
C17_ContentLength ==
  Walked =>
    LET w == out.walk
    IN /\ w.st # "Panic"
       /\ \A i \in 1 .. Len(w.res) :
            LET e == w.entries[i]
                l == bytes[e + 1]
            IN /\ Len(w.res[i].content) = 4 * l
               /\ w.res[i].content = SubSeq(bytes, e + 2, e + 1 + 4 * l)
               /\ w.tags[i + 1] = bytes[e + 2 + 4 * l]

----------------------------------------------------------------------------
(* C18: the range of a UDP port *)

\* C18: ExtType::parse_udp_port, entered by ExtType::parse on type octet
\* 0b01000000, returns BadUdpPort(v) exactly when the decoded 32-bit value v
\* is greater than 65535, and UdpPort(v), v unchanged, for every v in
\* 0..65535.
C18_UdpPortRange ==
  (op = "ExtType::parse" /\ arg[1] = 64 /\ arg[2] >= 1 /\ Has(4 * arg[2])) =>
    IF LsbFirst4(0) > 65535
    THEN out.st = "Err" /\ out.err = BadUdpPort(LsbFirst4(0))
    ELSE out.st = "Ok" /\ out.val = UdpPort(LsbFirst4(0))

----------------------------------------------------------------------------
(* C19: the parts of a record *)

\* C19: every record appended by ExtensionHeader::parse carries three parts:
\* its type tag, a comprehension value derived from the two top bits of the
\* type octet of that record, and its content octets; the records appear in
\* the order of the buffer.
C19_RecordParts ==
  Walked =>
    LET w == out.walk
    IN \A i \in 1 .. Len(w.res) :
         /\ DOMAIN w.res[i] = {"kind", "comprehension", "content"}
         /\ w.res[i].kind = KindOf(w.tags[i])
         /\ w.res[i].comprehension = Comprehension_parse(w.tags[i])
         /\ w.res[i].content
              = SubSeq(bytes, w.entries[i] + 2, w.entries[i] + 1 + Len(w.res[i].content))
         /\ i > 1 => w.entries[i] > w.entries[i - 1]

----------------------------------------------------------------------------
(* C20: the bytes a header without extension chain consumes *)

\* the length of a header whose first octet is read and whose extension flag
\* is clear
FixedLength == 7 + 2 * SeqBit + NpduBit

\* C20: with the extension flag clear, Gtp::parse succeeds when the buffer
\* holds 7 + 2*[sequence flag] + 1*[N-PDU flag] octets from the start
\* position, consumes exactly that many, reads from them in order the first
\* octet, the length (2), the TEID (4), the sequence number (2, if flagged)
\* and the N-PDU number (1, if flagged), and leaves the octets after them
\* unread: they do not affect the result.
C20_FixedConsumption ==
  (GtpCalled /\ Has(1) /\ ExtBit = 0) =>
    /\ Has(FixedLength) => out.st = "Ok"
    /\ out.st = "Ok" =>
         /\ pos = pos0 + FixedLength
         /\ out.val.length = LsbFirst2(1)
         /\ out.val.teid = LsbFirst4(3)
         /\ out.val.seq_num = IF SeqBit = 1 THEN Some(LsbFirst2(7)) ELSE None
         /\ out.val.npdu_num = IF NpduBit = 1 THEN Some(bytes[pos0 + 8 + 2 * SeqBit]) ELSE None
         /\ out.val.ext_hdrs = <<>>
         /\ Gtp_parse(SubSeq(bytes, 1, pos), pos0, overflow_checks).val = out.val
         /\ Gtp_parse(SubSeq(bytes, 1, pos), pos0, overflow_checks).pos = pos

\* a header with both optional fields and no chain was decoded from a buffer
\* that goes on after it
C20_Witness ==
  /\ GtpCalled /\ out.st = "Ok" /\ ExtBit = 0 /\ SeqBit = 1 /\ NpduBit = 1
  /\ pos = pos0 + 10
  /\ Len(bytes) > pos

====
